---------------------------- MODULE Spec2Model ----------------------------
(*************************************************************************)
(* cache_as_ram_main of src/mainboard/amd/inagua/romstage.c as a state   *)
(* machine.  The program counter pc is the source line of the statement  *)
(* about to execute; every statement of the function is one action.  A   *)
(* call of an external routine takes two steps, the call and its return  *)
(* (or its halt), so that "has returned before" can be stated.  trace    *)
(* records, in order, every externally observable event of the run.      *)
(*************************************************************************)
EXTENDS Integers, Sequences, FiniteSets

VARIABLES
    bist,                \* parameter: built-in self-test result
    cpu_init_detectedx,  \* parameter: non-zero on the warm (INIT detected) path
    bsp,                 \* what boot_cpu() answers on this processor
    val,                 \* local u32 val
    pc,                  \* source line of the next statement
    callee,              \* external routine in progress, "" when none
    status,              \* "running", "halted", "transferred", "returned"
    trace,               \* events so far
    cur,                 \* which invocation the variables above belong to
    parked               \* the other invocations: number -> their variables

vars == <<bist, cpu_init_detectedx, bsp, val, pc, callee, status, trace,
          cur, parked>>

-----------------------------------------------------------------------------
(* Bounds of the inputs. *)

MaxBist == 2
MaxInitDetected == 1
MaxCpuid == 1

BistValues == 0..MaxBist
InitDetectedValues == 0..MaxInitDetected
CpuidValues == 0..MaxCpuid

-----------------------------------------------------------------------------
(* Events. *)

Ev(k, n, a) == [kind |-> k, name |-> n, arg |-> a]

IsCall(e, f) == e.kind = "call" /\ e.name = f
IsRet(e, f) == e.kind = "ret" /\ e.name = f
IsPost(e) == e.kind = "post"

-----------------------------------------------------------------------------
(* Behaviour of the routines this file calls but does not define. *)

\* report_bist_failure(code) halts on a non-zero code and returns on zero.
\* The four agesawrapper_amdinit* steps own their failure handling and may
\* not return.  Every other routine returns.
VendorSteps ==
    {"agesawrapper_amdinitreset", "agesawrapper_amdinitearly",
     "agesawrapper_amdinitpost", "agesawrapper_amdinitenv"}

MayReturn(f, a) ==
    IF f = "report_bist_failure" THEN a = 0 ELSE TRUE

MayHalt(f, a) ==
    IF f = "report_bist_failure" THEN a # 0 ELSE f \in VendorSteps

-----------------------------------------------------------------------------
(* Statement forms. *)

Running == status = "running" /\ callee = ""

\* post_code(code);
PostCode(l, code, next) ==
    /\ Running /\ pc = l
    /\ trace' = Append(trace, Ev("post", "post_code", code))
    /\ pc' = next
    /\ UNCHANGED <<bist, cpu_init_detectedx, bsp, val, callee, status,
                 cur, parked>>

\* printk(level, fmt, a);
Printk(l, level, a, next) ==
    /\ Running /\ pc = l
    /\ trace' = Append(trace, Ev("printk", level, a))
    /\ pc' = next
    /\ UNCHANGED <<bist, cpu_init_detectedx, bsp, val, callee, status,
                 cur, parked>>

\* f(a); control enters f
Call(l, f, a) ==
    /\ Running /\ pc = l
    /\ callee' = f
    /\ trace' = Append(trace, Ev("call", f, a))
    /\ UNCHANGED <<bist, cpu_init_detectedx, bsp, val, pc, status,
                 cur, parked>>

\* f returns to the statement after the call
Return(l, f, next) ==
    /\ status = "running" /\ pc = l /\ callee = f
    /\ MayReturn(f, trace[Len(trace)].arg)
    /\ callee' = ""
    /\ pc' = next
    /\ trace' = Append(trace, Ev("ret", f, 0))
    /\ UNCHANGED <<bist, cpu_init_detectedx, bsp, val, status,
                 cur, parked>>

\* f halts the machine
Halt(l, f) ==
    /\ status = "running" /\ pc = l /\ callee = f
    /\ MayHalt(f, trace[Len(trace)].arg)
    /\ status' = "halted"
    /\ UNCHANGED <<bist, cpu_init_detectedx, bsp, val, pc, callee, trace,
                 cur, parked>>

\* a statement left out: the form of the faulty variants defined below
Skip(l, next) ==
    /\ Running /\ pc = l
    /\ pc' = next
    /\ UNCHANGED <<bist, cpu_init_detectedx, bsp, val, callee, status, trace,
                 cur, parked>>

-----------------------------------------------------------------------------
(* The state at entry of cache_as_ram_main. *)

Init ==
    /\ bist \in BistValues
    /\ cpu_init_detectedx \in InitDetectedValues
    /\ bsp \in BOOLEAN
    /\ val \in CpuidValues        \* u32 val; is declared without a value
    /\ pc = 45
    /\ callee = ""
    /\ status = "running"
    /\ trace = <<>>
    /\ cur = 0
    /\ parked = <<>>


-----------------------------------------------------------------------------
(* The statements of cache_as_ram_main, in source order. *)

\* copy_and_run() hands control to the next stage; it is expected not to
\* return, and the code provides for the case that it does.
Transfer(l, f) ==
    /\ status = "running" /\ pc = l /\ callee = f
    /\ status' = "transferred"
    /\ UNCHANGED <<bist, cpu_init_detectedx, bsp, val, pc, callee, trace,
                 cur, parked>>

\* line 45 with the call left out
amd_initmmio_omitted == Skip(45, 47)

\* line 45: amd_initmmio();
amd_initmmio ==
    \/ Call(45, "amd_initmmio", 0)
    \/ Return(45, "amd_initmmio", 47)

\* line 47 with || written for &&
GateOpen_Or == cpu_init_detectedx = 0 \/ bsp

\* line 47 with the negation of cpu_init_detectedx left out
GateOpen_NoNegation == cpu_init_detectedx # 0 /\ bsp

\* line 47 with the boot_cpu() test left out
GateOpen_NoBootCpu == cpu_init_detectedx = 0

\* line 47: the condition  !cpu_init_detectedx && boot_cpu()
GateOpen == cpu_init_detectedx = 0 /\ bsp

\* line 47: if (!cpu_init_detectedx && boot_cpu()) { ... }
\* boot_cpu() is evaluated only when the left operand is true.
if_cold_boot_cpu ==
    /\ Running /\ pc = 47
    /\ trace' = IF cpu_init_detectedx = 0
                THEN Append(trace, Ev("query", "boot_cpu", IF bsp THEN 1 ELSE 0))
                ELSE trace
    /\ pc' = IF GateOpen THEN 48 ELSE 58
    /\ UNCHANGED <<bist, cpu_init_detectedx, bsp, val, callee, status,
                 cur, parked>>

\* line 48: post_code(0x30);
post_code_30 == PostCode(48, 48, 49)

\* line 49: sb_Poweron_Init();
sb_Poweron_Init ==
    \/ Call(49, "sb_Poweron_Init", 0)
    \/ Return(49, "sb_Poweron_Init", 51)

\* line 51 with the checkpoint left out
post_code_31_omitted == Skip(51, 52)

\* line 51: post_code(0x31);
post_code_31 == PostCode(51, 49, 52)

\* line 52: kbc1100_early_init(0x2e);
kbc1100_early_init ==
    \/ Call(52, "kbc1100_early_init", 46)
    \/ Return(52, "kbc1100_early_init", 53)

\* line 53: kbc1100_early_serial(SERIAL_DEV, CONFIG_TTYS0_BASE);
\* the values of both arguments are set outside this file
kbc1100_early_serial ==
    \/ Call(53, "kbc1100_early_serial", 0)
    \/ Return(53, "kbc1100_early_serial", 54)

\* line 54: console_init();
console_init ==
    \/ Call(54, "console_init", 0)
    \/ Return(54, "console_init", 58)

\* line 58: post_code(0x34);
post_code_34 == PostCode(58, 52, 59)

\* line 59 with the other parameter passed
BistArg_OtherParameter == cpu_init_detectedx

\* line 59: the argument of report_bist_failure(bist)
BistArg == bist

\* line 59: report_bist_failure(bist);
report_bist_failure ==
    \/ Call(59, "report_bist_failure", BistArg)
    \/ Return(59, "report_bist_failure", 62)
    \/ Halt(59, "report_bist_failure")

\* line 62: val = cpuid_eax(1);
cpuid_eax ==
    /\ Running /\ pc = 62
    /\ val' \in CpuidValues
    /\ pc' = 63
    /\ UNCHANGED <<bist, cpu_init_detectedx, bsp, callee, status, trace,
                 cur, parked>>

\* line 63: printk(BIOS_DEBUG, "BSP Family_Model: %08x\n", val);
printk_family_model == Printk(63, "BIOS_DEBUG", val, 64)

\* line 64 under a condition: if (cpu_init_detectedx) printk(...)
printk_cpu_init_detectedx_if_set ==
    \/ cpu_init_detectedx # 0
          /\ Printk(64, "BIOS_DEBUG", cpu_init_detectedx, 66)
    \/ cpu_init_detectedx = 0 /\ Skip(64, 66)

\* line 64: printk(BIOS_DEBUG, "cpu_init_detectedx = %08lx\n", cpu_init_detectedx);
printk_cpu_init_detectedx == Printk(64, "BIOS_DEBUG", cpu_init_detectedx, 66)

\* line 66: post_code(0x37);
post_code_37 == PostCode(66, 55, 67)

\* line 67: agesawrapper_amdinitreset();
agesawrapper_amdinitreset ==
    \/ Call(67, "agesawrapper_amdinitreset", 0)
    \/ Return(67, "agesawrapper_amdinitreset", 69)
    \/ Halt(67, "agesawrapper_amdinitreset")

\* line 69: post_code(0x39);
post_code_39 == PostCode(69, 57, 70)

\* line 70 with the call of line 67 pasted and not renamed
agesawrapper_amdinitearly_pasted ==
    \/ Call(70, "agesawrapper_amdinitreset", 0)
    \/ Return(70, "agesawrapper_amdinitreset", 72)
    \/ Halt(70, "agesawrapper_amdinitreset")

\* line 70: agesawrapper_amdinitearly();
agesawrapper_amdinitearly ==
    \/ Call(70, "agesawrapper_amdinitearly", 0)
    \/ Return(70, "agesawrapper_amdinitearly", 72)
    \/ Halt(70, "agesawrapper_amdinitearly")

\* line 72 with the code written in decimal: post_code(40)
post_code_40_decimal == PostCode(72, 40, 73)

\* line 72: post_code(0x40);
post_code_40 == PostCode(72, 64, 73)

\* line 73: agesawrapper_amdinitpost();
agesawrapper_amdinitpost ==
    \/ Call(73, "agesawrapper_amdinitpost", 0)
    \/ Return(73, "agesawrapper_amdinitpost", 75)
    \/ Halt(73, "agesawrapper_amdinitpost")

\* line 75: post_code(0x41);
post_code_41 == PostCode(75, 65, 76)

\* line 76: agesawrapper_amdinitenv();
agesawrapper_amdinitenv ==
    \/ Call(76, "agesawrapper_amdinitenv", 0)
    \/ Return(76, "agesawrapper_amdinitenv", 77)
    \/ Halt(76, "agesawrapper_amdinitenv")

\* line 77 with the call left out
amd_initenv_omitted == Skip(77, 79)

\* line 77: amd_initenv();
amd_initenv ==
    \/ Call(77, "amd_initenv", 0)
    \/ Return(77, "amd_initenv", 79)

\* line 79 with the code of line 83: post_code(0x54)
post_code_50_as_54 == PostCode(79, 84, 80)

\* line 79: post_code(0x50);
post_code_50 == PostCode(79, 80, 80)

\* line 80: copy_and_run();
copy_and_run ==
    \/ Call(80, "copy_and_run", 0)
    \/ Transfer(80, "copy_and_run")
    \/ Return(80, "copy_and_run", 81)

\* line 81 followed by another attempt at line 80
printk_returned_retry == Printk(81, "BIOS_ERR", 0, 80)

\* line 81: printk(BIOS_ERR, "Error: copy_and_run() returned!\n");
printk_returned == Printk(81, "BIOS_ERR", 0, 83)

\* line 83 followed by a second attempt at line 80
post_code_54_retry == PostCode(83, 84, 80)

\* line 83: post_code(0x54);
post_code_54 == PostCode(83, 84, 84)

\* line 84: } the function returns to its caller
return_from_main ==
    /\ Running /\ pc = 84
    /\ status' = "returned"
    /\ UNCHANGED <<bist, cpu_init_detectedx, bsp, val, pc, callee, trace,
                 cur, parked>>

Next ==
    \/ amd_initmmio
    \/ if_cold_boot_cpu
    \/ post_code_30
    \/ sb_Poweron_Init
    \/ post_code_31
    \/ kbc1100_early_init
    \/ kbc1100_early_serial
    \/ console_init
    \/ post_code_34
    \/ report_bist_failure
    \/ cpuid_eax
    \/ printk_family_model
    \/ printk_cpu_init_detectedx
    \/ post_code_37
    \/ agesawrapper_amdinitreset
    \/ post_code_39
    \/ agesawrapper_amdinitearly
    \/ post_code_40
    \/ agesawrapper_amdinitpost
    \/ post_code_41
    \/ agesawrapper_amdinitenv
    \/ amd_initenv
    \/ post_code_50
    \/ copy_and_run
    \/ printk_returned
    \/ post_code_54
    \/ return_from_main

Spec == Init /\ [][Next]_vars

-----------------------------------------------------------------------------
(* Reading the trace. *)

Idx == 1..Len(trace)
Calls(f) == {i \in Idx : IsCall(trace[i], f)}
Rets(f) == {i \in Idx : IsRet(trace[i], f)}
Posts == {i \in Idx : IsPost(trace[i])}
PostsOf(code) == {i \in Posts : trace[i].arg = code}

GatedActions ==
    {"sb_Poweron_Init", "kbc1100_early_init", "kbc1100_early_serial",
     "console_init"}

IsPrefix(s, t) == Len(s) <= Len(t) /\ SubSeq(t, 1, Len(s)) = s

-----------------------------------------------------------------------------
(* Properties. *)

\* C1: on the warm path (cpu_init_detectedx # 0) or on a processor that is
\* not the boot processor, no gated action (sb_Poweron_Init,
\* kbc1100_early_init, kbc1100_early_serial, console_init) is ever called and
\* neither checkpoint 0x30 nor 0x31 is ever emitted, whatever bist is.
C1_GatedBlockSkipped ==
    (cpu_init_detectedx # 0 \/ ~bsp) =>
        /\ \A f \in GatedActions : Calls(f) = {} /\ callee # f
        /\ PostsOf(48) = {} /\ PostsOf(49) = {}

\* the warm path on the boot processor, run to the end of the function
C1_Witness ==
    /\ cpu_init_detectedx # 0 /\ bsp
    /\ status = "returned"

\* C2: on the cold path of the boot processor every gated action is called at
\* most once, never before amd_initmmio has returned, and by the time
\* checkpoint 0x34 is emitted each has been called and has returned exactly
\* once.
C2_GatedBlockOnce ==
    (cpu_init_detectedx = 0 /\ bsp) =>
        /\ \A f \in GatedActions :
              /\ Cardinality(Calls(f)) <= 1
              /\ \A i \in Calls(f) : \E j \in Rets("amd_initmmio") : j < i
        /\ PostsOf(52) # {} =>
              \A f \in GatedActions :
                  Cardinality(Calls(f)) = 1 /\ Cardinality(Rets(f)) = 1

\* the cold path on the boot processor, past the gated block
C2_Witness ==
    /\ cpu_init_detectedx = 0 /\ bsp
    /\ PostsOf(52) # {}
    /\ Rets("console_init") # {}

\* C3: the codes passed to post_code are strictly increasing along the run.
C3_PostCodesIncrease ==
    \A i \in Posts : \A j \in Posts : i < j => trace[i].arg < trace[j].arg

\* all nine checkpoints emitted, the terminal one included
C3_Witness ==
    /\ Cardinality(Posts) = 9
    /\ PostsOf(84) # {}

\* C4: when bist # 0, the call of report_bist_failure is the last thing the
\* run does: nothing is logged, no checkpoint 0x37 or higher is emitted, no
\* vendor step, no amd_initenv and no copy_and_run is called, and control
\* stays at line 59.
C4_BistFailureStops ==
    bist # 0 =>
        /\ \A i \in Calls("report_bist_failure") : i = Len(trace) /\ pc = 59
        /\ \A i \in Idx :
              /\ trace[i].kind # "printk"
              /\ IsPost(trace[i]) => trace[i].arg < 55
              /\ trace[i].name \notin
                    VendorSteps \cup {"amd_initenv", "copy_and_run"}
        /\ pc <= 59

\* a failed self test, halted inside report_bist_failure
C4_Witness ==
    /\ bist # 0
    /\ callee = "report_bist_failure"
    /\ status = "halted"

IsPhaseEvent(e) == e.name \in VendorSteps

PhaseEvents == SelectSeq(trace, IsPhaseEvent)

PhaseOrder ==
    << Ev("call", "agesawrapper_amdinitreset", 0),
       Ev("ret", "agesawrapper_amdinitreset", 0),
       Ev("call", "agesawrapper_amdinitearly", 0),
       Ev("ret", "agesawrapper_amdinitearly", 0),
       Ev("call", "agesawrapper_amdinitpost", 0),
       Ev("ret", "agesawrapper_amdinitpost", 0),
       Ev("call", "agesawrapper_amdinitenv", 0),
       Ev("ret", "agesawrapper_amdinitenv", 0) >>

\* C5: the calls and returns of the four vendor steps always form a prefix of
\* reset, early, post, env (each called once and returned before the next is
\* called), and the whole of it once copy_and_run has been called.
C5_PhaseOrder ==
    /\ IsPrefix(PhaseEvents, PhaseOrder)
    /\ Calls("copy_and_run") # {} => PhaseEvents = PhaseOrder

\* control has left for the next stage after the four steps
C5_Witness ==
    /\ status = "transferred"
    /\ PhaseEvents = PhaseOrder

\* C6: once copy_and_run has returned, the only events that follow are the
\* error message and then checkpoint 0x54; 0x54 is the last event of the run,
\* the function returns after it, and nothing is enabled after that.
C6_TerminalCheckpointLast ==
    /\ \A i \in Rets("copy_and_run") :
          /\ Len(trace) <= i + 2
          /\ Len(trace) >= i + 1 => trace[i + 1] = Ev("printk", "BIOS_ERR", 0)
          /\ Len(trace) >= i + 2 => trace[i + 2] = Ev("post", "post_code", 84)
    /\ \A i \in PostsOf(84) : i = Len(trace) /\ pc = 84 /\ callee = ""
    /\ status = "returned" =>
          /\ Rets("copy_and_run") # {}
          /\ PostsOf(84) # {}
          /\ ~ENABLED Next

\* copy_and_run returned and the function has returned after 0x54
C6_Witness ==
    /\ status = "returned"
    /\ Rets("copy_and_run") # {}
    /\ trace[Len(trace)] = Ev("post", "post_code", 84)

\* C7: wherever checkpoint 0x54 has been emitted, copy_and_run was called and
\* returned before it; a run that halted or whose transfer did not return
\* has not emitted it.
C7_TerminalOnlyAfterReturn ==
    /\ \A i \in PostsOf(84) :
          \E j \in Calls("copy_and_run") : \E k \in Rets("copy_and_run") :
              j < k /\ k < i
    /\ status \in {"halted", "transferred"} => PostsOf(84) = {}

\* 0x54 has just been emitted
C7_Witness ==
    /\ PostsOf(84) # {}
    /\ status = "running"

\* C8: the first event of every run is the call of amd_initmmio and the
\* second its return; it is called once, and control does not pass line 45
\* without it.
C8_MmioFirst ==
    /\ Len(trace) >= 1 => IsCall(trace[1], "amd_initmmio")
    /\ Len(trace) >= 2 => IsRet(trace[2], "amd_initmmio")
    /\ Cardinality(Calls("amd_initmmio")) <= 1
    /\ pc # 45 =>
          /\ Cardinality(Calls("amd_initmmio")) = 1
          /\ Cardinality(Rets("amd_initmmio")) = 1

\* a secondary processor on the warm path with a failed self test, past
\* amd_initmmio
C8_Witness ==
    /\ bist # 0 /\ cpu_init_detectedx # 0 /\ ~bsp
    /\ PostsOf(52) # {}

\* C9 as stated: on the cold path of the boot processor, power-on init, early
\* device init and console init are each called right after a checkpoint, and
\* three checkpoints precede checkpoint 0x34.
C9_Original ==
    (cpu_init_detectedx = 0 /\ bsp) =>
        /\ \A f \in {"sb_Poweron_Init", "kbc1100_early_init", "console_init"} :
              \A i \in Calls(f) : i > 1 /\ IsPost(trace[i - 1])
        /\ \A m \in PostsOf(52) : Cardinality({i \in Posts : i < m}) = 3

\* C9: on the cold path of the boot processor, sb_Poweron_Init is called right
\* after checkpoint 0x30 and kbc1100_early_init right after checkpoint 0x31;
\* kbc1100_early_serial is called right after kbc1100_early_init returns and
\* console_init right after kbc1100_early_serial returns, with no checkpoint
\* of its own; two checkpoints precede checkpoint 0x34.
C9_TwoCheckpointsInGatedBlock ==
    (cpu_init_detectedx = 0 /\ bsp) =>
        /\ \A i \in Calls("sb_Poweron_Init") :
              i > 1 /\ trace[i - 1] = Ev("post", "post_code", 48)
        /\ \A i \in Calls("kbc1100_early_init") :
              i > 1 /\ trace[i - 1] = Ev("post", "post_code", 49)
        /\ \A i \in Calls("kbc1100_early_serial") :
              i > 1 /\ IsRet(trace[i - 1], "kbc1100_early_init")
        /\ \A i \in Calls("console_init") :
              i > 1 /\ IsRet(trace[i - 1], "kbc1100_early_serial")
        /\ \A m \in PostsOf(52) :
              {trace[i].arg : i \in {k \in Posts : k < m}} = {48, 49}
              /\ Cardinality({i \in Posts : i < m}) = 2

\* the cold path on the boot processor, inside console_init
C9_Witness ==
    /\ cpu_init_detectedx = 0 /\ bsp
    /\ callee = "console_init"

\* C10: copy_and_run is called at most once, and only after amd_initenv has
\* returned and checkpoint 0x50 has been emitted after that return;
\* amd_initenv is called at most once, only after agesawrapper_amdinitenv has
\* returned, and exactly once by the time copy_and_run is called.
C10_TransferAfterFinalize ==
    /\ Cardinality(Calls("copy_and_run")) <= 1
    /\ \A i \in Calls("copy_and_run") :
          \E j \in Rets("amd_initenv") : \E k \in PostsOf(80) :
              j < k /\ k < i
    /\ Cardinality(Calls("amd_initenv")) <= 1
    /\ \A i \in Calls("amd_initenv") :
          \E j \in Rets("agesawrapper_amdinitenv") : j < i
    /\ Calls("copy_and_run") # {} =>
          /\ Cardinality(Calls("amd_initenv")) = 1
          /\ Cardinality(Rets("amd_initenv")) = 1

\* inside copy_and_run
C10_Witness ==
    /\ callee = "copy_and_run"
    /\ status = "running"

-----------------------------------------------------------------------------
(* Several processors running cache_as_ram_main during one boot.  Each has  *)
(* its own parameters, its own local val and its own position; the function *)
(* keeps no variable of its own in memory shared between them.  The         *)
(* variables bist .. trace hold the processor that takes the next step, and *)
(* parked holds the others.                                                 *)

NumSecondary == 1

Cpus == 0..NumSecondary

Local ==
    [bist |-> bist, cpu_init_detectedx |-> cpu_init_detectedx, bsp |-> bsp,
     val |-> val, pc |-> pc, callee |-> callee, status |-> status,
     trace |-> trace]

\* the states in which a processor enters the function
EntryStates ==
    [bist : BistValues, cpu_init_detectedx : InitDetectedValues,
     bsp : BOOLEAN, val : CpuidValues, pc : {45}, callee : {""},
     status : {"running"}, trace : {<<>>}]

\* the variables of processor p
StateOf(p) == IF p = cur THEN Local ELSE parked[p]

\* another processor takes the next step
Switch(q) ==
    /\ q \in DOMAIN parked
    /\ parked' = [p \in (DOMAIN parked \ {q}) \cup {cur} |->
                     IF p = cur THEN Local ELSE parked[p]]
    /\ cur' = q
    /\ bist' = parked[q].bist
    /\ cpu_init_detectedx' = parked[q].cpu_init_detectedx
    /\ bsp' = parked[q].bsp
    /\ val' = parked[q].val
    /\ pc' = parked[q].pc
    /\ callee' = parked[q].callee
    /\ status' = parked[q].status
    /\ trace' = parked[q].trace

\* boot_cpu() is true on exactly one processor of the machine
InitMP ==
    /\ cur = 0
    /\ bist \in BistValues
    /\ cpu_init_detectedx \in InitDetectedValues
    /\ bsp \in BOOLEAN
    /\ val \in CpuidValues
    /\ pc = 45
    /\ callee = ""
    /\ status = "running"
    /\ trace = <<>>
    /\ parked \in [Cpus \ {0} -> EntryStates]
    /\ Cardinality({p \in Cpus : StateOf(p).bsp}) = 1

NextMP ==
    \/ Next
    \/ \E q \in Cpus : Switch(q)

SpecMP == InitMP /\ [][NextMP]_vars

\* the calls of f made by processor p so far
CallsBy(p, f) ==
    {i \in 1..Len(StateOf(p).trace) : IsCall(StateOf(p).trace[i], f)}

\* C11: with exactly one boot processor among the processors running the
\* function, every gated action (sb_Poweron_Init, kbc1100_early_init,
\* kbc1100_early_serial, console_init) is called at most once in total over
\* all processors, in every interleaving, and only by the boot processor.
C11_GatedOncePerBoot ==
    Cardinality({p \in Cpus : StateOf(p).bsp}) = 1 =>
        \A f \in GatedActions :
            /\ Cardinality(UNION {{<<p, i>> : i \in CallsBy(p, f)} :
                                      p \in Cpus}) <= 1
            /\ \A p \in Cpus : CallsBy(p, f) # {} => StateOf(p).bsp

\* the boot processor has finished the gated block while a secondary
\* processor on the cold path is in the middle of its own run
C11_Witness ==
    \E p \in Cpus : \E q \in Cpus :
        /\ StateOf(p).bsp /\ CallsBy(p, "console_init") # {}
        /\ StateOf(p).callee = "agesawrapper_amdinitpost"
        /\ ~StateOf(q).bsp /\ StateOf(q).cpu_init_detectedx = 0
        /\ StateOf(q).callee = "agesawrapper_amdinitreset"
        /\ StateOf(q).status = "running"

-----------------------------------------------------------------------------
(* Two invocations of cache_as_ram_main, one after the other: when the      *)
(* first has come to its end, its variables are parked and the function is  *)
(* entered again with parameters and a processor role chosen afresh.        *)

invoke_again ==
    /\ cur = 0 /\ parked = <<>>
    /\ status # "running"
    /\ parked' = [p \in {0} |-> Local]
    /\ cur' = 1
    /\ bist' \in BistValues
    /\ cpu_init_detectedx' \in InitDetectedValues
    /\ bsp' \in BOOLEAN
    /\ val' \in CpuidValues
    /\ pc' = 45
    /\ callee' = ""
    /\ status' = "running"
    /\ trace' = <<>>

NextPair ==
    \/ Next
    \/ invoke_again

SpecPair == Init /\ [][NextPair]_vars

\* the events of t from checkpoint 0x34 on
FromSelfTest(t) ==
    LET S == {i \in 1..Len(t) : IsPost(t[i]) /\ t[i].arg = 52}
    IN  IF S = {} THEN <<>>
        ELSE SubSeq(t, CHOOSE i \in S : \A j \in S : i <= j, Len(t))

\* the same step in two invocations a and b: the same event, or the log line
\* of line 64 carrying each invocation's own cpu_init_detectedx
SameStep(x, y, a, b) ==
    \/ x = y
    \/ /\ x.kind = "printk" /\ y.kind = "printk" /\ x.name = y.name
       /\ x.arg = a.cpu_init_detectedx /\ y.arg = b.cpu_init_detectedx

\* C12 as stated: two invocations with the same bist and the same answers of
\* the routines called (the same cpuid value; the same routine halting, or
\* copy_and_run leaving or returning alike) produce the same events from
\* checkpoint 0x34 on, whatever their roles and reset paths.
C12_Original ==
    cur = 1 =>
        LET a == parked[0]
            b == Local
            sa == FromSelfTest(a.trace)
            sb == FromSelfTest(b.trace)
        IN  (a.bist = b.bist /\ a.val = b.val) =>
                \A i \in 1..Len(sa) : i <= Len(sb) => sa[i] = sb[i]

\* C12: two invocations with the same bist and the same answers of the
\* routines called perform the same steps from checkpoint 0x34 on, whatever
\* their roles and reset paths: the same checkpoints and the same calls in
\* the same order, except that the log line of line 64 carries each
\* invocation's own cpu_init_detectedx.  Every invocation that passes line 58
\* emits checkpoint 0x34.
C12_RoleAndPathOnlyGate ==
    cur = 1 =>
        LET a == parked[0]
            b == Local
            sa == FromSelfTest(a.trace)
            sb == FromSelfTest(b.trace)
        IN  /\ b.pc > 58 => sb # <<>>
            /\ (a.bist = b.bist /\ a.val = b.val) =>
                  /\ \A i \in 1..Len(sa) :
                        i <= Len(sb) => SameStep(sa[i], sb[i], a, b)
                  /\ (a.status = b.status /\ a.callee = b.callee) =>
                        Len(sa) = Len(sb)

\* the boot processor on the cold path and a secondary processor on the warm
\* path, both run to the end of the function with the same bist and cpuid
C12_Witness ==
    /\ cur = 1
    /\ parked[0].bsp /\ parked[0].cpu_init_detectedx = 0
    /\ ~bsp /\ cpu_init_detectedx # 0
    /\ parked[0].bist = bist /\ parked[0].val = val
    /\ parked[0].status = "returned" /\ status = "returned"

-----------------------------------------------------------------------------
(* One processor runs the function to its end: it executes the next         *)
(* statement as long as there is one, and a routine that was called         *)
(* returns, halts the machine or takes control away.                        *)

SpecFair == Init /\ [][Next]_vars /\ WF_vars(Next)

\* the four ways an invocation ends
Outcome ==
    \/ status = "halted" /\ callee = "report_bist_failure"
    \/ status = "halted" /\ callee \in VendorSteps
    \/ status = "transferred" /\ callee = "copy_and_run"
    \/ /\ status = "returned" /\ callee = ""
       /\ trace # <<>> /\ trace[Len(trace)] = Ev("post", "post_code", 84)

\* C13: every invocation comes to an end; where it ends is one of: halted in
\* report_bist_failure, halted in a vendor step, control taken by
\* copy_and_run, or returned after checkpoint 0x54; once ended nothing
\* changes; control never moves back to an earlier line, and no routine is
\* called and no checkpoint emitted a second time.
C13_EndsOnceNoRetry ==
    /\ <>(status # "running")
    /\ [](status # "running" => Outcome)
    /\ [][status # "running" => UNCHANGED vars]_vars
    /\ [][pc' >= pc]_vars
    /\ [](\A i \in Idx : \A j \in Idx :
            (i # j /\ trace[i].kind \in {"call", "post"}) =>
                trace[i] # trace[j])

\* halted inside the third vendor step
C13_Witness ==
    /\ status = "halted"
    /\ callee = "agesawrapper_amdinitpost"
    /\ Outcome

=============================================================================
